---- MODULE Spec2Model ----
(***************************************************************************)
(* A model of robusta: the class-file readers of src/src/class_file.rs     *)
(* (generic over Read, read_exact based) and of src/src/lib.rs (ZipFile,   *)
(* read based), the constant pool and its accessors, the linker            *)
(* insert_class, run's load loop and main lookup, and the interpreter      *)
(* loop of the design document.                                            *)
(*                                                                         *)
(* A byte stream is a sequence of 0..255 read from a position pos (the     *)
(* number of bytes consumed so far).  A Rust String is its UTF-8 bytes, so *)
(* text is a sequence of bytes too.  A Result is a record                  *)
(*   [st |-> "Ok" | "Err" | "Panic", val, pos, err].                       *)
(***************************************************************************)
EXTENDS Integers, Sequences, FiniteSets, TLC

VARIABLES
    build,      \* "debug" (overflow checks on) or "release" (wrapping)
    pc,         \* where the process is: "idle", "load", "thread", "outer",
                \* "inner", "done"
    call,       \* the last operation invoked, with its inputs
    ret,        \* what that operation returned
    classes,    \* run's HashMap<String, Rc<RuntimeClass>>
    loaded,     \* how many class files the load loop has consumed
    arg,        \* args().nth(1): the requested main class name
    frames,     \* the thread's call stack, top last
    result,     \* what run returned with
    linked      \* the classes insert_class has returned, in order

vars == <<build, pc, call, ret, classes, loaded, arg, frames, result, linked>>

-----------------------------------------------------------------------------
(* Results *)

Ok(v, p) == [st |-> "Ok", val |-> v, pos |-> p, err |-> "none"]
Err(e, p) == [st |-> "Err", val |-> <<>>, pos |-> p, err |-> e]
Panic(e, p) == [st |-> "Panic", val |-> <<>>, pos |-> p, err |-> e]

Zeros(n) == [i \in 1..n |-> 0]

from_be_bytes(b) ==
    IF Len(b) = 2 THEN b[1] * 256 + b[2]
    ELSE ((b[1] * 256 + b[2]) * 256 + b[3]) * 256 + b[4]

\* r?: an Err (or a panic) leaves the function at once with r; next is
\* what follows, evaluated only when r is Ok.
Then(r, next) == IF r.st # "Ok" THEN r ELSE next

\* Ok(v) once r, the last read of a function, is Ok: r? ... Ok(v)
Value(r, v) == IF r.st # "Ok" THEN r ELSE Ok(v, r.pos)

\* vec.push(item?)
Push(vec, item) ==
    IF item.st # "Ok" THEN item ELSE Ok(Append(vec, item.val), item.pos)

\* value.field = r?
Field(value, field, r) ==
    IF r.st # "Ok" THEN r ELSE Ok([value EXCEPT ![field] = r.val], r.pos)

-----------------------------------------------------------------------------
(* std::io::Read as the two readers use it.                                *)

\* Read::read_exact: all n bytes or an UnexpectedEof error.
read_exact(s, pos, n) ==
    IF pos + n <= Len(s)
    THEN Ok(SubSeq(s, pos + 1, pos + n), pos + n)
    ELSE Err("UnexpectedEof", Len(s))

\* Read::read into a zero-initialised buffer of n bytes, its count dropped:
\* the bytes the stream still holds are copied, the rest of the buffer keeps
\* its zeros, and the call is Ok.  (Read::read may also return short before
\* the end of the stream; only the short read at the end is modelled.)
read(s, pos, n) ==
    IF pos + n <= Len(s)
    THEN Ok(SubSeq(s, pos + 1, pos + n), pos + n)
    ELSE Ok(SubSeq(s, pos + 1, Len(s)) \o Zeros(pos + n - Len(s)), Len(s))

\* Ok(bytes[0]) and Ok(u16::from_be_bytes(bytes)), Ok(u32::from_be_bytes(bytes))
\* of the buffer that was read
first_byte(bytes) ==
    IF bytes.st # "Ok" THEN bytes ELSE Ok(bytes.val[1], bytes.pos)
be_bytes(bytes) ==
    IF bytes.st # "Ok" THEN bytes ELSE Ok(from_be_bytes(bytes.val), bytes.pos)

-----------------------------------------------------------------------------
(* class_file.rs: the reader primitives *)

class_file_read_u8(s, pos) == first_byte(read_exact(s, pos, 1))

class_file_read_u32(s, pos) == be_bytes(read_exact(s, pos, 4))

class_file_read_u16(s, pos) == be_bytes(read_exact(s, pos, 2))

class_file_read_length(s, pos, length) == read_exact(s, pos, length)

(* lib.rs: the reader primitives *)

lib_read_u8(s, pos) == first_byte(read(s, pos, 1))

lib_read_u32(s, pos) == be_bytes(read(s, pos, 4))

lib_read_u16(s, pos) == be_bytes(read(s, pos, 2))

lib_read_length(s, pos, length) == read(s, pos, length)
-----------------------------------------------------------------------------
(* String::from_utf8: the bytes are kept when they are well-formed UTF-8.  *)

IsCont(b) == b >= 128 /\ b <= 191

RECURSIVE ValidUtf8From(_, _)
ValidUtf8From(b, i) ==
    IF i > Len(b) THEN TRUE
    ELSE LET x == b[i]
             has(k) == i + k <= Len(b)
         IN  IF x < 128 THEN ValidUtf8From(b, i + 1)
             ELSE IF x >= 194 /\ x <= 223
             THEN has(1) /\ IsCont(b[i + 1]) /\ ValidUtf8From(b, i + 2)
             ELSE IF x >= 224 /\ x <= 239
             THEN /\ has(2)
                  /\ IsCont(b[i + 1]) /\ IsCont(b[i + 2])
                  /\ (x = 224 => b[i + 1] >= 160)
                  /\ (x = 237 => b[i + 1] <= 159)
                  /\ ValidUtf8From(b, i + 3)
             ELSE IF x >= 240 /\ x <= 244
             THEN /\ has(3)
                  /\ IsCont(b[i + 1]) /\ IsCont(b[i + 2]) /\ IsCont(b[i + 3])
                  /\ (x = 240 => b[i + 1] >= 144)
                  /\ (x = 244 => b[i + 1] <= 143)
                  /\ ValidUtf8From(b, i + 4)
             ELSE FALSE

from_utf8(b, pos) ==
    IF ValidUtf8From(b, 1) THEN Ok(b, pos) ELSE Err("FromUtf8Error", pos)

-----------------------------------------------------------------------------
(* enum Const *)

Utf8(bytes) == [tag |-> "Utf8", bytes |-> bytes, name_idx |-> 0]
Class(name_idx) == [tag |-> "Class", bytes |-> <<>>, name_idx |-> name_idx]
Unimplemented == [tag |-> "Unimplemented", bytes |-> <<>>, name_idx |-> 0]

\* Ok(Const::Utf8(.. String::from_utf8(bytes)? ..)), bytes = read_length(..)?
Const_Utf8(bytes) ==
    Then(bytes, Value(from_utf8(bytes.val, bytes.pos), Utf8(bytes.val)))

\* Ok(Const::Class(.. name_idx ..)), name_idx = read_u16(..)?
Const_Class(name_idx) == Then(name_idx, Ok(Class(name_idx.val), name_idx.pos))

(* class_file.rs read_const: the arms of match tag, tag = read_u8(reader)? *)
class_file_match_tag(s, tag) ==
    Then(tag,
    IF tag.val = 1
    THEN LET length == class_file_read_u16(s, tag.pos)
         IN  Then(length,
             Const_Utf8(class_file_read_length(s, length.pos, length.val)))
    ELSE IF tag.val = 7
    THEN Const_Class(class_file_read_u16(s, tag.pos))
    ELSE IF tag.val \in {10, 12}
    THEN Value(class_file_read_u32(s, tag.pos), Unimplemented)
    ELSE Err("Unimplemented tag", tag.pos))

class_file_read_const(s, pos) ==
    class_file_match_tag(s, class_file_read_u8(s, pos))

(* lib.rs read_const: the arms of match tag, tag = read_u8(file)? *)
lib_match_tag(s, tag) ==
    Then(tag,
    IF tag.val = 1
    THEN LET length == lib_read_u16(s, tag.pos)
         IN  Then(length,
             Const_Utf8(lib_read_length(s, length.pos, length.val)))
    ELSE IF tag.val \in {5, 6}
    THEN LET hi == lib_read_u32(s, tag.pos)
         IN  Then(hi, Value(lib_read_u32(s, hi.pos), Unimplemented))
    ELSE IF tag.val = 7
    THEN Const_Class(lib_read_u16(s, tag.pos))
    ELSE IF tag.val \in {8, 16}
    THEN Value(lib_read_u16(s, tag.pos), Unimplemented)
    ELSE IF tag.val \in {3, 4, 9, 10, 11, 12, 18}
    THEN Value(lib_read_u32(s, tag.pos), Unimplemented)
    ELSE IF tag.val = 15
    THEN LET kind == lib_read_u8(s, tag.pos)
         IN  Then(kind, Value(lib_read_u16(s, kind.pos), Unimplemented))
    ELSE Err("Unimplemented tag", tag.pos))

lib_read_const(s, pos) == lib_match_tag(s, lib_read_u8(s, pos))

-----------------------------------------------------------------------------
(* Unsigned arithmetic and vectors *)

\* usize::MAX: what 0usize - 1 wraps to without overflow checks.  It is only
\* ever compared with the length of a vector, which it exceeds.
UsizeMax == 2147483647

\* The iterations of for _ in lo..hi
range_len(lo, hi) == IF hi > lo THEN hi - lo ELSE 0

\* x - 1 on an unsigned integer whose largest value is max: a panic when
\* overflow checks are compiled in (chk), a wrap to max when they are not.
sub1(chk, x, max) ==
    IF x >= 1 THEN Ok(x - 1, 0)
    ELSE IF chk THEN Panic("attempt to subtract with overflow", 0)
    ELSE Ok(max, 0)

\* Vec::with_capacity(n)
with_capacity(n, pos) ==
    IF n >= UsizeMax THEN Panic("capacity overflow", pos) ELSE Ok(<<>>, pos)

\* slice::get(i)
get(v, i) == IF i < Len(v) THEN Ok(v[i + 1], 0) ELSE Err("None", 0)

-----------------------------------------------------------------------------
(* class_file.rs: Attribute, Code, Method, ConstPool, ClassFile.  A loop    *)
(* of n iterations is an operator of n and of prev, the result so far:     *)
(* the vector built and the position reached, or the error that ended it.  *)

Attribute_from_reader(s, pos) ==
    LET name_idx == class_file_read_u16(s, pos)
        length == class_file_read_u32(s, name_idx.pos)
    IN  Then(name_idx,
        Then(length,
        Field([name_idx |-> name_idx.val, info |-> <<>>], "info",
              class_file_read_length(s, length.pos, length.val))))

\* for _ in 0..n { attributes.push(Attribute::from_reader(reader)?) }
RECURSIVE Attributes_from_reader(_, _, _)
Attributes_from_reader(s, n, prev) ==
    IF n = 0 \/ prev.st # "Ok" THEN prev
    ELSE Attributes_from_reader(s, n - 1,
             Push(prev.val, Attribute_from_reader(s, prev.pos)))

\* Code::read_from
Code_read_from(s, pos) ==
    LET max_stack == class_file_read_u16(s, pos)
        max_locals == class_file_read_u16(s, max_stack.pos)
        code_length == class_file_read_u32(s, max_locals.pos)
        code == class_file_read_length(s, code_length.pos, code_length.val)
        ex_table_length == class_file_read_u16(s, code.pos)
        ex_table == class_file_read_length(s, ex_table_length.pos,
                                           ex_table_length.val * 8)
        attributes_length == class_file_read_u16(s, ex_table.pos)
    IN  Then(max_stack,
        Then(max_locals,
        Then(code_length,
        Then(code,
        Then(ex_table_length,
        Then(ex_table,
        Then(attributes_length,
        Value(Attributes_from_reader(s, attributes_length.val,
                                     Ok(<<>>, attributes_length.pos)),
              [max_stack |-> max_stack.val, max_locals |-> max_locals.val,
               code |-> code.val]))))))))

\* Method::from_reader
Method_from_reader(s, pos) ==
    LET access_flags == class_file_read_u16(s, pos)
        name_idx == class_file_read_u16(s, access_flags.pos)
        descriptor_idx == class_file_read_u16(s, name_idx.pos)
        attributes_count == class_file_read_u16(s, descriptor_idx.pos)
    IN  Then(access_flags,
        Then(name_idx,
        Then(descriptor_idx,
        Then(attributes_count,
        Field([name_idx |-> name_idx.val, descriptor_idx |-> descriptor_idx.val,
               attributes |-> <<>>], "attributes",
              Attributes_from_reader(s, attributes_count.val,
                                     Ok(<<>>, attributes_count.pos)))))))

\* for _ in 1..const_pool_count { pool.push(read_const(reader)?) }
RECURSIVE class_file_read_consts(_, _, _)
class_file_read_consts(s, n, prev) ==
    IF n = 0 \/ prev.st # "Ok" THEN prev
    ELSE class_file_read_consts(s, n - 1,
             Push(prev.val, class_file_read_const(s, prev.pos)))

\* ConstPool::from_reader; 1..const_pool_count is empty for a count of 0 or 1.
ConstPool_from_reader(chk, s, pos) ==
    LET const_pool_count == class_file_read_u16(s, pos)
        capacity == sub1(chk, const_pool_count.val, UsizeMax)
        pool == with_capacity(capacity.val, const_pool_count.pos)
    IN  Then(const_pool_count,
        Then(capacity,
        class_file_read_consts(s, range_len(1, const_pool_count.val), pool)))

\* ConstPool::get_const: self.consts.get(idx as usize - 1).ok_or(..)
ConstPool_get_const(chk, consts, idx) ==
    LET i == sub1(chk, idx, UsizeMax)
        item == get(consts, i.val)
    IN  Then(i,
        IF item.st = "Ok" THEN item
        ELSE Err("const pool does not have an item at index", idx))

\* get_utf8 without its check of the variant: the text of whatever entry
\* is there (none for an entry that is no Utf8)
match_utf8_unchecked(const_item) ==
    Then(const_item, Ok(const_item.val.bytes, 0))

\* match const_item { Const::Utf8(utf8) => Ok(utf8), _ => Err(..) }
match_utf8(const_item) ==
    Then(const_item,
    IF const_item.val.tag = "Utf8" THEN Ok(const_item.val.bytes, 0)
    ELSE Err("expected utf8, got", 0))

\* match const_item { Const::Class(class) => Ok(class), _ => Err(..) }
match_class(const_item) ==
    Then(const_item,
    IF const_item.val.tag = "Class" THEN Ok(const_item.val.name_idx, 0)
    ELSE Err("expected class, got", 0))

ConstPool_get_utf8(chk, consts, idx) ==
    match_utf8(ConstPool_get_const(chk, consts, idx))

ConstPool_get_class(chk, consts, idx) ==
    match_class(ConstPool_get_const(chk, consts, idx))

\* for _ in 0..interface_count { read_u16(reader)? }
RECURSIVE class_file_skip_interfaces(_, _, _)
class_file_skip_interfaces(s, n, prev) ==
    IF n = 0 \/ prev.st # "Ok" THEN prev
    ELSE class_file_skip_interfaces(s, n - 1,
             Value(class_file_read_u16(s, prev.pos), <<>>))

\* for _ in 0..attribute_count { name index; length; read_length }
class_file_skip_attribute(s, pos) ==
    LET name_idx == class_file_read_u16(s, pos)
        length == class_file_read_u32(s, name_idx.pos)
    IN  Then(name_idx,
        Then(length,
        Value(class_file_read_length(s, length.pos, length.val), <<>>)))

RECURSIVE class_file_skip_attributes(_, _, _)
class_file_skip_attributes(s, n, prev) ==
    IF n = 0 \/ prev.st # "Ok" THEN prev
    ELSE class_file_skip_attributes(s, n - 1,
             class_file_skip_attribute(s, prev.pos))

\* for _ in 0..field_count { three u16; the attributes }
class_file_skip_field(s, pos) ==
    LET access_flags == class_file_read_u16(s, pos)
        name_idx == class_file_read_u16(s, access_flags.pos)
        descriptor_idx == class_file_read_u16(s, name_idx.pos)
        attribute_count == class_file_read_u16(s, descriptor_idx.pos)
    IN  Then(access_flags,
        Then(name_idx,
        Then(descriptor_idx,
        Then(attribute_count,
        class_file_skip_attributes(s, attribute_count.val,
                                   Ok(<<>>, attribute_count.pos))))))

RECURSIVE class_file_skip_fields(_, _, _)
class_file_skip_fields(s, n, prev) ==
    IF n = 0 \/ prev.st # "Ok" THEN prev
    ELSE class_file_skip_fields(s, n - 1, class_file_skip_field(s, prev.pos))

\* for _ in 0..method_count { methods.push(Method::from_reader(reader)?) }
RECURSIVE Methods_from_reader(_, _, _)
Methods_from_reader(s, n, prev) ==
    IF n = 0 \/ prev.st # "Ok" THEN prev
    ELSE Methods_from_reader(s, n - 1,
             Push(prev.val, Method_from_reader(s, prev.pos)))

\* ClassFile::read_from, section by section: each section starts where prev,
\* the one before it, stopped, and adds what it read to the ClassFile in
\* prev.val.
class_file_read_header(s, pos) ==
    Value(class_file_read_length(s, pos, 8),
          [const_pool |-> <<>>, this_class |-> 0, methods |-> <<>>,
           attributes |-> <<>>])

class_file_read_const_pool(chk, s, prev) ==
    Then(prev,
    Field(prev.val, "const_pool", ConstPool_from_reader(chk, s, prev.pos)))

class_file_read_class_info(s, prev) ==
    Then(prev,
    LET access_flags == class_file_read_u16(s, prev.pos)
        this_class == class_file_read_u16(s, access_flags.pos)
        super_class == class_file_read_u16(s, this_class.pos)
        interface_count == class_file_read_u16(s, super_class.pos)
    IN  Then(access_flags,
        Then(this_class,
        Then(super_class,
        Then(interface_count,
        Value(class_file_skip_interfaces(s, interface_count.val,
                                         Ok(<<>>, interface_count.pos)),
              [prev.val EXCEPT !.this_class = this_class.val]))))))

class_file_read_field_table(s, prev) ==
    Then(prev,
    LET field_count == class_file_read_u16(s, prev.pos)
    IN  Then(field_count,
        Value(class_file_skip_fields(s, field_count.val,
                                     Ok(<<>>, field_count.pos)),
              prev.val)))

class_file_read_method_table(s, prev) ==
    Then(prev,
    LET method_count == class_file_read_u16(s, prev.pos)
    IN  Then(method_count,
        Field(prev.val, "methods",
              Methods_from_reader(s, method_count.val,
                                  Ok(<<>>, method_count.pos)))))

class_file_read_class_attributes(s, prev) ==
    Then(prev,
    LET attribute_count == class_file_read_u16(s, prev.pos)
    IN  Then(attribute_count,
        Field(prev.val, "attributes",
              Attributes_from_reader(s, attribute_count.val,
                                     Ok(<<>>, attribute_count.pos)))))

ClassFile_read_from(chk, s, pos) ==
    class_file_read_class_attributes(s,
    class_file_read_method_table(s,
    class_file_read_field_table(s,
    class_file_read_class_info(s,
    class_file_read_const_pool(chk, s,
    class_file_read_header(s, pos))))))

-----------------------------------------------------------------------------
(* lib.rs: read_class_file *)

\* u16::MAX: what 0u16 - 1 wraps to without overflow checks.
U16Max == 65535

\* "Code"
CodeText == <<67, 111, 100, 101>>

\* Code { max_stack: 0, max_locals: 0, code: vec![] }
EmptyCode == [max_stack |-> 0, max_locals |-> 0, code |-> <<>>]

\* for _ in 0..attribute_count { name index; length; read_length }
lib_skip_attribute(s, pos) ==
    LET name_idx == lib_read_u16(s, pos)
        length == lib_read_u32(s, name_idx.pos)
    IN  Then(name_idx,
        Then(length,
        Value(lib_read_length(s, length.pos, length.val), <<>>)))

RECURSIVE lib_skip_attributes(_, _, _)
lib_skip_attributes(s, n, prev) ==
    IF n = 0 \/ prev.st # "Ok" THEN prev
    ELSE lib_skip_attributes(s, n - 1, lib_skip_attribute(s, prev.pos))

\* for _ in 0..interface_count { read_u16(&mut file)? }
RECURSIVE lib_skip_interfaces(_, _, _)
lib_skip_interfaces(s, n, prev) ==
    IF n = 0 \/ prev.st # "Ok" THEN prev
    ELSE lib_skip_interfaces(s, n - 1, Value(lib_read_u16(s, prev.pos), <<>>))

\* for _ in 0..field_count { three u16; the attributes }
lib_skip_field(s, pos) ==
    LET access_flags == lib_read_u16(s, pos)
        name_idx == lib_read_u16(s, access_flags.pos)
        descriptor_idx == lib_read_u16(s, name_idx.pos)
        attribute_count == lib_read_u16(s, descriptor_idx.pos)
    IN  Then(access_flags,
        Then(name_idx,
        Then(descriptor_idx,
        Then(attribute_count,
        lib_skip_attributes(s, attribute_count.val,
                            Ok(<<>>, attribute_count.pos))))))

RECURSIVE lib_skip_fields(_, _, _)
lib_skip_fields(s, n, prev) ==
    IF n = 0 \/ prev.st # "Ok" THEN prev
    ELSE lib_skip_fields(s, n - 1, lib_skip_field(s, prev.pos))

\* for _ in 1..const_pool_count { const_pool.push(read_const(&mut file)?) }
RECURSIVE lib_read_consts(_, _, _)
lib_read_consts(s, n, prev) ==
    IF n = 0 \/ prev.st # "Ok" THEN prev
    ELSE lib_read_consts(s, n - 1, Push(prev.val, lib_read_const(s, prev.pos)))

\* The "Code" arm of the attribute loop: the attribute from its length on;
\* the value is what method.code is set to.
lib_read_code(s, pos) ==
    LET length == lib_read_u32(s, pos)
        max_stack == lib_read_u16(s, length.pos)
        max_locals == lib_read_u16(s, max_stack.pos)
        code_length == lib_read_u32(s, max_locals.pos)
        code == lib_read_length(s, code_length.pos, code_length.val)
        ex_length == lib_read_u16(s, code.pos)
        ex_table == lib_read_length(s, ex_length.pos, ex_length.val * 8)
        attribute_count == lib_read_u16(s, ex_table.pos)
    IN  Then(length,
        Then(max_stack,
        Then(max_locals,
        Then(code_length,
        Then(code,
        Then(ex_length,
        Then(ex_table,
        Then(attribute_count,
        Value(lib_skip_attributes(s, attribute_count.val,
                                  Ok(<<>>, attribute_count.pos)),
              [max_stack |-> max_stack.val, max_locals |-> max_locals.val,
               code |-> code.val])))))))))

\* The attribute loop of a method: prev.val is method.code so far.  Every
\* attribute named "Code" sets method.code again.
RECURSIVE lib_read_method_attributes(_, _, _, _, _)
lib_read_method_attributes(chk, s, n, const_pool, prev) ==
    IF n = 0 \/ prev.st # "Ok" THEN prev
    ELSE LET name_idx == lib_read_u16(s, prev.pos)
             i == sub1(chk, name_idx.val, U16Max)
             const_item == get(const_pool, i.val)
             length == lib_read_u32(s, name_idx.pos)
         IN  Then(name_idx,
             Then(i,
             IF const_item.st # "Ok"
             THEN Err("expected const pool item", name_idx.pos)
             ELSE IF const_item.val.tag # "Utf8"
             THEN Err("expected utf8", name_idx.pos)
             ELSE IF const_item.val.bytes = CodeText
             THEN lib_read_method_attributes(chk, s, n - 1, const_pool,
                      lib_read_code(s, name_idx.pos))
             ELSE Then(length,
                  lib_read_method_attributes(chk, s, n - 1, const_pool,
                      Value(lib_read_length(s, length.pos, length.val),
                            prev.val)))))

\* One iteration of the method loop, up to the method that is pushed
lib_read_method(chk, s, pos, const_pool) ==
    LET access_flags == lib_read_u16(s, pos)
        name_idx == lib_read_u16(s, access_flags.pos)
        descriptor_idx == lib_read_u16(s, name_idx.pos)
        attribute_count == lib_read_u16(s, descriptor_idx.pos)
    IN  Then(access_flags,
        Then(name_idx,
        Then(descriptor_idx,
        Then(attribute_count,
        Field([name_idx |-> name_idx.val, descriptor_idx |-> descriptor_idx.val,
               code |-> EmptyCode], "code",
              lib_read_method_attributes(chk, s, attribute_count.val, const_pool,
                                         Ok(EmptyCode, attribute_count.pos)))))))

\* for _ in 0..method_count { ...; class_file.methods.push(method) }
RECURSIVE lib_read_methods(_, _, _, _, _)
lib_read_methods(chk, s, n, const_pool, prev) ==
    IF n = 0 \/ prev.st # "Ok" THEN prev
    ELSE lib_read_methods(chk, s, n - 1, const_pool,
             Push(prev.val, lib_read_method(chk, s, prev.pos, const_pool)))

\* read_class_file, section by section: each section starts where prev, the
\* one before it, stopped, and sets its fields of the ClassFile in prev.val.
lib_read_header(s) ==
    LET magic == lib_read_u32(s, 0)
        minor == lib_read_u16(s, magic.pos)
    IN  Then(magic,
        Then(minor,
        Value(lib_read_u16(s, minor.pos),
              [const_pool |-> <<>>, this_class |-> 0, super_class |-> 0,
               methods |-> <<>>])))

lib_read_const_pool(s, prev) ==
    Then(prev,
    LET const_pool_count == lib_read_u16(s, prev.pos)
    IN  Then(const_pool_count,
        Field(prev.val, "const_pool",
              lib_read_consts(s, range_len(1, const_pool_count.val),
                              Ok(<<>>, const_pool_count.pos)))))

lib_read_class_info(s, prev) ==
    Then(prev,
    LET access_flags == lib_read_u16(s, prev.pos)
        this_class == lib_read_u16(s, access_flags.pos)
        super_class == lib_read_u16(s, this_class.pos)
        interface_count == lib_read_u16(s, super_class.pos)
    IN  Then(access_flags,
        Then(this_class,
        Then(super_class,
        Then(interface_count,
        Value(lib_skip_interfaces(s, interface_count.val,
                                  Ok(<<>>, interface_count.pos)),
              [prev.val EXCEPT !.this_class = this_class.val,
                               !.super_class = super_class.val]))))))

lib_read_field_table(s, prev) ==
    Then(prev,
    LET field_count == lib_read_u16(s, prev.pos)
    IN  Then(field_count,
        Value(lib_skip_fields(s, field_count.val, Ok(<<>>, field_count.pos)),
              prev.val)))

lib_read_method_table(chk, s, prev) ==
    Then(prev,
    LET method_count == lib_read_u16(s, prev.pos)
    IN  Then(method_count,
        Field(prev.val, "methods",
              lib_read_methods(chk, s, method_count.val, prev.val.const_pool,
                               Ok(<<>>, method_count.pos)))))

lib_read_class_attributes(s, prev) ==
    Then(prev,
    LET attribute_count == lib_read_u16(s, prev.pos)
    IN  Then(attribute_count,
        Value(lib_skip_attributes(s, attribute_count.val,
                                  Ok(<<>>, attribute_count.pos)),
              prev.val)))

read_class_file(chk, s) ==
    lib_read_class_attributes(s,
    lib_read_method_table(chk, s,
    lib_read_field_table(s,
    lib_read_class_info(s,
    lib_read_const_pool(s,
    lib_read_header(s))))))

-----------------------------------------------------------------------------
(* lib.rs: insert_class *)

\* entry(k).or_insert(v) in the place of insert: a value already under k
\* stays
HashMap_or_insert(m, k, v) ==
    [n \in DOMAIN m \cup {k} |-> IF n \in DOMAIN m THEN m[n] ELSE v]

\* HashMap::insert: the value under key k is v, whatever was there before.
HashMap_insert(m, k, v) ==
    [n \in DOMAIN m \cup {k} |-> IF n = k THEN v ELSE m[n]]

\* const_pool.get((idx - 1) as usize).ok_or(anyhow!("error")), idx a u16
lib_pool_get(chk, const_pool, idx) ==
    LET i == sub1(chk, idx, U16Max)
        item == get(const_pool, i.val)
    IN  IF i.st # "Ok" THEN i
        ELSE IF item.st = "Ok" THEN item
        ELSE Err("error", 0)

lib_pool_utf8(chk, const_pool, idx) ==
    LET item == lib_pool_get(chk, const_pool, idx)
    IN  IF item.st # "Ok" THEN item
        ELSE IF item.val.tag = "Utf8" THEN Ok(item.val.bytes, 0)
        ELSE Err("error", 0)

\* lines 255-266: this_class -> Class -> Utf8
lib_class_name(chk, class_file) ==
    LET class_name == lib_pool_get(chk, class_file.const_pool, class_file.this_class)
        utf == lib_pool_get(chk, class_file.const_pool, class_name.val.name_idx)
    IN  IF class_name.st # "Ok" THEN class_name
        ELSE IF class_name.val.tag # "Class" THEN Err("expected class, not", 0)
        ELSE IF utf.st # "Ok" THEN utf
        ELSE IF utf.val.tag # "Utf8" THEN Err("expected utf8, not", 0)
        ELSE Ok(utf.val.bytes, 0)

\* lines 268-287: the methods, in the class file's order
RECURSIVE lib_link_methods(_, _, _, _)
lib_link_methods(chk, class_file, i, methods) ==
    IF i > Len(class_file.methods) THEN Ok(methods, 0)
    ELSE LET method == class_file.methods[i]
             name == lib_pool_utf8(chk, class_file.const_pool, method.name_idx)
             descriptor == lib_pool_utf8(chk, class_file.const_pool,
                                         method.descriptor_idx)
         IN  IF name.st # "Ok" THEN name
             ELSE IF descriptor.st # "Ok" THEN descriptor
             ELSE lib_link_methods(chk, class_file, i + 1,
                      Append(methods, [name |-> name.val,
                                       descriptor |-> descriptor.val,
                                       code |-> method.code]))

\* insert_class: val is the new RuntimeClass, pos is unused and map is the
\* registry after the call (the registry as it was unless the call is Ok).
insert_class(chk, map, class_file) ==
    LET class_name == lib_class_name(chk, class_file)
        methods == lib_link_methods(chk, class_file, 1, <<>>)
        class == [this_class |-> class_name.val, super_class |-> "None",
                  methods |-> methods.val]
        fail(r) == [st |-> r.st, val |-> <<>>, pos |-> 0, err |-> r.err, map |-> map]
    IN  IF class_name.st # "Ok" THEN fail(class_name)
        ELSE IF methods.st # "Ok" THEN fail(methods)
        ELSE [st |-> "Ok", val |-> class, pos |-> 0, err |-> "none",
              map |-> HashMap_insert(map, class.this_class, class)]

-----------------------------------------------------------------------------
(* The class-file format, written: the streams the operations are run on.  *)
(* Length fields stay below 2^31, the largest integer TLC holds; the     *)
(* header is read and never validated.                                     *)

u16_be(n) == <<n \div 256, n % 256>>
u32_be(n) == <<n \div 16777216, (n \div 65536) % 256, (n \div 256) % 256, n % 256>>

RECURSIVE Concat(_)
Concat(ss) == IF ss = <<>> THEN <<>> ELSE Head(ss) \o Concat(Tail(ss))

Prefix(s, k) == SubSeq(s, 1, k)

\* A constant: Unimplemented is written as a Methodref (tag 10), which both
\* readers know.
EncConst(c) ==
    IF c.tag = "Utf8" THEN <<1>> \o u16_be(Len(c.bytes)) \o c.bytes
    ELSE IF c.tag = "Class" THEN <<7>> \o u16_be(c.name_idx)
    ELSE <<10, 0, 2, 0, 3>>

\* A generic attribute [name_idx, info].
EncAttribute(a) == u16_be(a.name_idx) \o u32_be(Len(a.info)) \o a.info

\* The body of a Code attribute: c.code, c.ex exception-table entries and
\* c.attrs nested attributes.
EncCode(c) ==
    u16_be(c.max_stack) \o u16_be(c.max_locals)
    \o u32_be(Len(c.code)) \o c.code
    \o u16_be(c.ex) \o Concat([i \in 1..c.ex |-> <<0, 0, 0, 1, 0, 0, 0, 0>>])
    \o u16_be(c.attrs) \o Concat([i \in 1..c.attrs |-> EncAttribute([name_idx |-> 6, info |-> <<9>>])])

EncMethod(m) ==
    u16_be(9) \o u16_be(m.name_idx) \o u16_be(m.descriptor_idx)
    \o u16_be(Len(m.attributes)) \o Concat([i \in 1..Len(m.attributes) |-> EncAttribute(m.attributes[i])])

EncPool(count, consts) == u16_be(count) \o Concat([i \in 1..Len(consts) |-> EncConst(consts[i])])

\* A class file: d.extras interfaces and d.extras fields (one attribute each).
EncClassFile(d) ==
    <<74, 254, 186, 190, 0, 0, 0, 52>>
    \o EncPool(Len(d.const_pool) + 1, d.const_pool)
    \o u16_be(33) \o u16_be(d.this_class) \o u16_be(0)
    \o u16_be(d.extras) \o Concat([i \in 1..d.extras |-> u16_be(7)])
    \o u16_be(d.extras)
    \o Concat([i \in 1..d.extras |->
                 u16_be(2) \o u16_be(6) \o u16_be(6) \o u16_be(1)
                 \o EncAttribute([name_idx |-> 6, info |-> <<1, 2>>])])
    \o u16_be(Len(d.methods)) \o Concat([i \in 1..Len(d.methods) |-> EncMethod(d.methods[i])])
    \o u16_be(d.extras)
    \o Concat([i \in 1..d.extras |-> EncAttribute([name_idx |-> 6, info |-> <<>>])])

\* Text
MainText == <<109, 97, 105, 110>>
MainDescriptor ==
    <<40, 91, 76, 106, 97, 118, 97, 47, 108, 97, 110, 103, 47,
      83, 116, 114, 105, 110, 103, 59, 41, 86>>
XText == <<88>>
NameA == <<65>>
NameSlash == <<97, 47, 66>>
NameDot == <<97, 46, 66>>
NameZ == <<90>>

\* The pool of every class written here: 1 the class's name, 2 its Class,
\* 3 "main", 4 the descriptor of main, 5 "Code", 6 "X", 7 a Class naming a
\* Class, 8 an Unimplemented entry.  Its count is 9.
PoolOf(name) ==
    <<Utf8(name), Class(1), Utf8(MainText), Utf8(MainDescriptor),
      Utf8(CodeText), Utf8(XText), Class(2), Unimplemented>>

RETURN == 177

-----------------------------------------------------------------------------
(* Bounds and the inputs drawn within them *)

MaxReadLen == 3     \* read_length is asked for 0..MaxReadLen bytes
MaxCodeLen == 2     \* a Code attribute holds at most this many bytes of code
MaxMethods == 2     \* methods of a class file
MaxAttrs == 2       \* attributes of a method
MaxJar == 2         \* class files the load loop reads

Builds == {"debug", "release"}
Readers == {"class_file", "lib"}
Bytes == 0..255

SeqsUpTo(S, n) == UNION {[1..k -> S] : k \in 0..n}

\* class_file.rs read_length_tests::BYTES
BYTES == <<16, 32, 48, 64, 80>>

\* The payload each tag of the format is followed by (a Utf8 of length 2
\* here); an unassigned tag is followed by four bytes of something.
PayloadLen(tag) ==
    IF tag \in {7, 8, 16, 19, 20} THEN 2
    ELSE IF tag = 15 THEN 3
    ELSE IF tag \in {5, 6} THEN 8
    ELSE 4
Payload == <<0, 2, 104, 105, 0, 0, 0, 1>>
ConstStream(tag) == <<tag>> \o Prefix(Payload, PayloadLen(tag))
ConstStreams ==
    {ConstStream(tag) : tag \in Bytes}
    \cup {<<1, 0, 1, 255>>, <<1, 0, 2, 195, 169>>, <<7, 35, 69>>}
    \cup {<<1, 0, 11, 104, 101, 108, 108, 111, 32, 119, 111, 114, 108, 100>>}

\* Code attributes
CodeDescs ==
    [max_stack : {1}, max_locals : {2}, code : SeqsUpTo({RETURN, 0}, MaxCodeLen),
     ex : {0, 1}, attrs : {0, 1}]

\* The attributes a method is given: a Code attribute or an attribute "X".
CodeAttrs ==
    {[name_idx |-> 5, info |-> EncCode(c)] :
        c \in {[max_stack |-> 1, max_locals |-> 1, code |-> <<RETURN>>, ex |-> 0, attrs |-> 0],
               [max_stack |-> 2, max_locals |-> 3, code |-> <<0, RETURN>>, ex |-> 1, attrs |-> 1]}}
OtherAttrs == {[name_idx |-> 6, info |-> <<9>>]}
AttrLists == SeqsUpTo(CodeAttrs \cup OtherAttrs, MaxAttrs)

\* Class files whose methods vary in their attributes
AttrClassDescs ==
    [const_pool : {PoolOf(NameA)}, this_class : {2}, extras : {0, 1},
     methods : SeqsUpTo([name_idx : {3}, descriptor_idx : {4}, attributes : AttrLists], 1)
               \cup {<<[name_idx |-> 3, descriptor_idx |-> 4, attributes |-> a],
                       [name_idx |-> 6, descriptor_idx |-> 4, attributes |-> <<>>]>> :
                       a \in AttrLists}]

\* Parsed class files (lib.rs ClassFile) whose indices vary
LinkMethods ==
    [name_idx : {3, 2, 9}, descriptor_idx : {4, 8, 0},
     code : {[max_stack |-> 1, max_locals |-> 1, code |-> <<RETURN>>]}]
LinkClassFiles ==
    [const_pool : {PoolOf(NameA), PoolOf(NameSlash)}, this_class : 0..9,
     super_class : {0}, methods : SeqsUpTo(LinkMethods, MaxMethods)]

\* The class file of an empty main, as javac writes it for the test
MainClassDesc(name, code) ==
    [const_pool |-> PoolOf(name), this_class |-> 2, extras |-> 1,
     methods |-> <<[name_idx |-> 3, descriptor_idx |-> 4,
                    attributes |-> <<[name_idx |-> 5,
                        info |-> EncCode([max_stack |-> 0, max_locals |-> 1,
                                          code |-> code, ex |-> 0, attrs |-> 1])]>>]>>]

-----------------------------------------------------------------------------
(* The operations, each called on its own as a unit test calls it: one     *)
(* call a behaviour; call records the operation and its inputs, ret what   *)
(* it returned.                                                            *)

NoCall == [op |-> "none"]
NoRet == [st |-> "none"]
checked == build = "debug"

rest == <<build, pc, classes, loaded, arg, frames, result, linked>>

InitCalls ==
    /\ build \in Builds
    /\ pc = "idle"
    /\ call = NoCall
    /\ ret = NoRet
    /\ classes = <<>>
    /\ loaded = 0
    /\ arg = <<>>
    /\ frames = <<>>
    /\ result = NoRet
    /\ linked = <<>>

\* read_u8 / read_u16 / read_u32 on the first k bytes of BYTES
CallReadInt(rd, op, k) ==
    LET s == Prefix(BYTES, k)
    IN  /\ call = NoCall
        /\ call' = [op |-> op, rd |-> rd, s |-> s]
        /\ ret' = IF rd = "class_file"
                  THEN CASE op = "read_u8" -> class_file_read_u8(s, 0)
                         [] op = "read_u16" -> class_file_read_u16(s, 0)
                         [] op = "read_u32" -> class_file_read_u32(s, 0)
                  ELSE CASE op = "read_u8" -> lib_read_u8(s, 0)
                         [] op = "read_u16" -> lib_read_u16(s, 0)
                         [] op = "read_u32" -> lib_read_u32(s, 0)
        /\ UNCHANGED rest

\* read_length(n) on the first k bytes of BYTES
CallReadLength(rd, k, n) ==
    LET s == Prefix(BYTES, k)
    IN  /\ call = NoCall
        /\ call' = [op |-> "read_length", rd |-> rd, s |-> s, n |-> n]
        /\ ret' = IF rd = "class_file" THEN class_file_read_length(s, 0, n)
                  ELSE lib_read_length(s, 0, n)
        /\ UNCHANGED rest

\* read_const on the first cut bytes of an encoded constant
CallReadConst(rd, full, cut) ==
    LET s == Prefix(full, cut)
    IN  /\ call = NoCall
        /\ call' = [op |-> "read_const", rd |-> rd, s |-> s, full |-> full]
        /\ ret' = IF rd = "class_file" THEN class_file_read_const(s, 0)
                  ELSE lib_read_const(s, 0)
        /\ UNCHANGED rest

\* Code::read_from on the body of a Code attribute, and lib.rs's decoding of
\* the same body after the attribute's length; on its first cut bytes.
CodeStream(rd, c) ==
    IF rd = "class_file" THEN EncCode(c)
    ELSE u32_be(Len(EncCode(c))) \o EncCode(c)

CallReadCode(rd, c, cut) ==
    LET s == Prefix(CodeStream(rd, c), cut)
    IN  /\ call = NoCall
        /\ call' = [op |-> "read_code", rd |-> rd, s |-> s,
                    full |-> CodeStream(rd, c), c |-> c]
        /\ ret' = IF rd = "class_file" THEN Code_read_from(s, 0)
                  ELSE lib_read_code(s, 0)
        /\ UNCHANGED rest

\* ClassFile::read_from and read_class_file on the first cut bytes of a
\* class file
CallReadClass(rd, full, cut) ==
    LET s == Prefix(full, cut)
    IN  /\ call = NoCall
        /\ call' = [op |-> "read_class", rd |-> rd, s |-> s, full |-> full]
        /\ ret' = IF rd = "class_file" THEN ClassFile_read_from(checked, s, 0)
                  ELSE read_class_file(checked, s)
        /\ UNCHANGED rest

\* ConstPool::from_reader on a stream declaring count and holding n constants
CallFromReader(count, n) ==
    LET s == EncPool(count, Prefix(PoolOf(NameA), n))
    IN  /\ call = NoCall
        /\ call' = [op |-> "from_reader", rd |-> "class_file", s |-> s,
                    count |-> count, n |-> n]
        /\ ret' = ConstPool_from_reader(checked, s, 0)
        /\ UNCHANGED rest

\* get_const / get_utf8 / get_class on the pool read from a stream
\* declaring count
CallAccessor(op, count, idx) ==
    LET pool == ConstPool_from_reader(checked,
                    EncPool(count, Prefix(PoolOf(NameA), count - 1)), 0)
    IN  /\ call = NoCall
        /\ pool.st = "Ok"
        /\ call' = [op |-> op, rd |-> "class_file", consts |-> pool.val,
                    count |-> count, idx |-> idx]
        /\ ret' = CASE op = "get_const" -> ConstPool_get_const(checked, pool.val, idx)
                    [] op = "get_utf8" -> ConstPool_get_utf8(checked, pool.val, idx)
                    [] op = "get_class" -> ConstPool_get_class(checked, pool.val, idx)
        /\ UNCHANGED rest

\* insert_class of a parsed class file into an empty registry
CallInsertClass(class_file) ==
    /\ call = NoCall
    /\ call' = [op |-> "insert_class", rd |-> "lib", class_file |-> class_file]
    /\ ret' = insert_class(checked, <<>>, class_file)
    /\ UNCHANGED rest

\* The body of run's load loop once the file is opened:
\* let class_file = read_class_file(file)?; insert_class(&mut classes, class_file)?
insert_read(chk, map, class_file) ==
    IF class_file.st # "Ok"
    THEN [st |-> class_file.st, val |-> <<>>, pos |-> class_file.pos,
          err |-> class_file.err, map |-> map]
    ELSE insert_class(chk, map, class_file.val)

load(chk, map, s) == insert_read(chk, map, read_class_file(chk, s))

\* read_class_file, then insert_class, of one class file
CallLoad(d) ==
    /\ call = NoCall
    /\ call' = [op |-> "load", rd |-> "lib", d |-> d, before |-> <<>>]
    /\ ret' = load(checked, <<>>, EncClassFile(d))
    /\ UNCHANGED rest

NextCalls ==
    \/ \E rd \in Readers, op \in {"read_u8", "read_u16", "read_u32"},
          k \in 0..Len(BYTES) :
          CallReadInt(rd, op, k)
    \/ \E rd \in Readers, k \in 0..Len(BYTES), n \in 0..MaxReadLen :
          CallReadLength(rd, k, n)
    \/ \E rd \in Readers, full \in ConstStreams :
          \E cut \in 0..Len(full) : CallReadConst(rd, full, cut)
    \/ \E rd \in Readers, c \in CodeDescs :
          \E cut \in 0..Len(CodeStream(rd, c)) : CallReadCode(rd, c, cut)
    \/ \E rd \in Readers, full \in {EncClassFile(MainClassDesc(NameSlash, <<RETURN>>))} :
          \E cut \in 0..Len(full) : CallReadClass(rd, full, cut)
    \/ \E count \in 0..Len(PoolOf(NameA)) + 1 :
          \E n \in 0..range_len(1, count) : CallFromReader(count, n)
    \/ \E op \in {"get_const", "get_utf8", "get_class"},
          count \in 1..Len(PoolOf(NameA)) + 1 :
          \E idx \in 0..count + 1 : CallAccessor(op, count, idx)
    \/ \E class_file \in LinkClassFiles : CallInsertClass(class_file)
    \/ \E d \in AttrClassDescs : CallLoad(d)

SpecCalls == InitCalls /\ [][NextCalls]_vars

-----------------------------------------------------------------------------
(* run: the load loop over the class files of the jars, then the lookup   *)
(* of the main class and of its main method.  lib.rs stops there (it       *)
(* prints the bytecode found and returns Ok); the thread that executes the *)
(* method is not in the sources and is modelled from section 4.5 of the    *)
(* design document: ThreadCreate, ThreadOuter, ThreadReturn,               *)
(* ThreadUnknown, ThreadInnerExit and RunReturn.                           *)

\* The class files of the jars in data/
JarDescs ==
    {MainClassDesc(NameA, <<RETURN>>),
     MainClassDesc(NameA, <<0>>),
     MainClassDesc(NameSlash, <<RETURN>>),
     \* main without a Code attribute
     [MainClassDesc(NameZ, <<>>) EXCEPT !.methods[1].attributes = <<>>],
     \* no main: the method is named X
     [MainClassDesc(NameZ, <<RETURN>>) EXCEPT !.methods[1].name_idx = 6],
     \* this_class lands on a Utf8 entry, on no entry
     [MainClassDesc(NameA, <<RETURN>>) EXCEPT !.this_class = 1],
     [MainClassDesc(NameA, <<RETURN>>) EXCEPT !.this_class = 0]}
JarFiles ==
    {EncClassFile(d) : d \in JarDescs}
    \cup {Prefix(EncClassFile(MainClassDesc(NameA, <<RETURN>>)), 10)}

\* args().nth(1): None is <<>>, Some(name) is <<name>>
Args == {<<>>} \cup {<<name>> : name \in {NameA, NameSlash, NameDot, NameZ}}

Init ==
    /\ build \in Builds
    /\ pc = "load"
    /\ call = NoCall
    /\ ret = NoRet
    /\ classes = <<>>
    /\ loaded = 0
    /\ arg \in Args
    /\ frames = <<>>
    /\ result = NoRet
    /\ linked = <<>>

\* What run returns with: Ok(()), an Err or a panic
Exit(r) == [st |-> r.st, err |-> r.err, info |-> r.pos]

\* One iteration of the load loop on the class file s.  A failure leaves run
\* (the ? operator); a panic ends the process.
LoadClass(s) ==
    /\ pc = "load"
    /\ loaded < MaxJar
    /\ call' = [op |-> "load", s |-> s, before |-> classes]
    /\ ret' = load(checked, classes, s)
    /\ loaded' = loaded + 1
    /\ classes' = ret'.map
    /\ IF ret'.st = "Ok"
       THEN /\ linked' = Append(linked, ret'.val)
            /\ UNCHANGED <<pc, result>>
       ELSE /\ pc' = "done"
            /\ result' = Exit(ret')
            /\ UNCHANGED linked
    /\ UNCHANGED <<build, arg, frames>>

\* main_class.methods.iter().find(|method| name "main" and its descriptor)
find_main(methods) ==
    LET found == {i \in 1..Len(methods) :
                     /\ methods[i].name = MainText
                     /\ methods[i].descriptor = MainDescriptor}
    IN  IF found = {} THEN Err("can't find main method", 0)
        ELSE Ok(methods[CHOOSE i \in found : \A j \in found : i <= j], 0)

\* lines 37-42 of run; the position of an Err is the name it reports
lookup(map, main_class_name) ==
    IF main_class_name = <<>> THEN Err("required main class", <<>>)
    ELSE IF main_class_name[1] \notin DOMAIN map
    THEN Err("unknown class", main_class_name[1])
    ELSE find_main(map[main_class_name[1]].methods)

\* The load loop is over: the main class and its main method are looked up
RunLookup ==
    /\ pc = "load"
    /\ call' = [op |-> "lookup", classes |-> classes]
    /\ ret' = lookup(classes, arg)
    /\ IF ret'.st = "Ok"
       THEN pc' = "thread" /\ UNCHANGED result
       ELSE pc' = "done" /\ result' = Exit(ret')
    /\ UNCHANGED <<build, classes, loaded, arg, frames, linked>>

\* Thread creation: one Frame, program counter 0, the method's bytecode
ThreadCreate ==
    /\ pc = "thread"
    /\ frames' = <<[program_counter |-> 0, code |-> ret.val.code.code]>>
    /\ pc' = "outer"
    /\ call' = [op |-> "thread", method |-> ret.val]
    /\ UNCHANGED <<build, ret, classes, loaded, arg, result, linked>>

\* The top frame is the last one
top == frames[Len(frames)]
pop(stack) == SubSeq(stack, 1, Len(stack) - 1)

\* while the stack is non-empty, inspect the top frame
ThreadOuter ==
    /\ pc = "outer"
    /\ frames # <<>>
    /\ pc' = "inner"
    /\ UNCHANGED <<build, call, ret, classes, loaded, arg, frames, result, linked>>

\* while its program counter is within its bytecode length, fetch the byte
\* at the program counter and dispatch: RETURN pops the current frame
ThreadReturn ==
    /\ pc = "inner"
    /\ top.program_counter < Len(top.code)
    /\ top.code[top.program_counter + 1] = RETURN
    /\ call' = [op |-> "RETURN", before |-> frames]
    /\ frames' = pop(frames)
    /\ pc' = "outer"
    /\ UNCHANGED <<build, ret, classes, loaded, arg, result, linked>>

\* any other byte: the unknown-instruction error, carrying the opcode
ThreadUnknown ==
    /\ pc = "inner"
    /\ top.program_counter < Len(top.code)
    /\ top.code[top.program_counter + 1] # RETURN
    /\ result' = Exit(Err("unknown instruction", top.code[top.program_counter + 1]))
    /\ pc' = "done"
    /\ UNCHANGED <<build, call, ret, classes, loaded, arg, frames, linked>>

\* the program counter is not within the bytecode: the inner loop is left,
\* and the outer loop inspects the stack again
ThreadInnerExit ==
    /\ pc = "inner"
    /\ top.program_counter >= Len(top.code)
    /\ pc' = "outer"
    /\ UNCHANGED <<build, call, ret, classes, loaded, arg, frames, result, linked>>

\* The stack is empty: the thread has run to completion and run is Ok(())
RunReturn ==
    /\ pc = "outer"
    /\ frames = <<>>
    /\ result' = Exit(Ok(<<>>, 0))
    /\ pc' = "done"
    /\ UNCHANGED <<build, call, ret, classes, loaded, arg, frames, linked>>

Next ==
    \/ \E s \in JarFiles : LoadClass(s)
    \/ RunLookup
    \/ ThreadCreate
    \/ ThreadOuter
    \/ ThreadReturn
    \/ ThreadUnknown
    \/ ThreadInnerExit
    \/ RunReturn

Spec == Init /\ [][Next]_vars

\* What run does once the load loop is over
Step ==
    \/ RunLookup
    \/ ThreadCreate
    \/ ThreadOuter
    \/ ThreadReturn
    \/ ThreadUnknown
    \/ ThreadInnerExit
    \/ RunReturn

\* The process is one sequential thread of control that nothing suspends:
\* past the load loop it takes its next step whenever it has one.
FairSpec == Spec /\ WF_vars(Step)

-----------------------------------------------------------------------------
(* The properties.  A property about an operation called on its own is     *)
(* stated of call and ret under SpecCalls; a property about the registry,  *)
(* the lookup or the thread is stated of run's state under Spec, and       *)
(* termination under FairSpec.                                             *)

\* The bytes read_u8 / read_u16 / read_u32 declare
Width(op) ==
    CASE op = "read_u8" -> 1
      [] op = "read_u16" -> 2
      [] op = "read_u32" -> 4

\* C1 Truncation safety: a reader primitive called on a stream that holds
\* fewer bytes than the field it reads, and a decoder (read_const, Code
\* decoding, class-file reading) called on a stream that stops before the
\* end of what it decodes, returns an error, for the reader of class_file.rs
\* and for the reader of lib.rs; no value is built from missing bytes.
C1_TruncationSafety ==
    /\ (call.op \in {"read_u8", "read_u16", "read_u32"}
          /\ Len(call.s) < Width(call.op)) => ret.st = "Err"
    /\ (call.op = "read_length" /\ Len(call.s) < call.n) => ret.st = "Err"
    /\ (call.op \in {"read_const", "read_code", "read_class"}
          /\ Len(call.s) < Len(call.full)) => ret.st = "Err"

\* The same of the reader of class_file.rs alone
C1_class_file_reader ==
    (call.op \in {"read_u8", "read_u16", "read_u32", "read_length",
                  "read_const", "read_code", "read_class"}
       /\ call.rd = "class_file") => C1_TruncationSafety

\* lib.rs read_u16 on the empty stream returns Ok(0)
C1_ZeroFilled ==
    /\ call.op = "read_u16"
    /\ call.rd = "lib"
    /\ call.s = <<>>
    /\ ret = Ok(0, 0)

InRange(idx, count) == idx >= 1 /\ idx < count

\* C2 Pool index invariant: on a pool read from a stream declaring count,
\* every index in [1, count) resolves to the one entry at that place, and an
\* access with index 0 or with an index >= count is an error value; reading
\* a pool that declares count 0 and the index lookups of insert_class never
\* underflow idx - 1 (no panic).
C2_PoolIndexInvariant ==
    /\ (call.op \in {"get_const", "get_utf8", "get_class"}
          /\ ~InRange(call.idx, call.count)) => ret.st = "Err"
    /\ (call.op = "get_const" /\ InRange(call.idx, call.count)) =>
          ret.st = "Ok" /\ ret.val = call.consts[call.idx]
    /\ call.op \in {"from_reader", "insert_class"} => ret.st # "Panic"

\* get_const(0) with overflow checks compiled in
C2_IndexZeroPanics ==
    /\ call.op = "get_const"
    /\ call.idx = 0
    /\ ret.st = "Panic"

\* idx lands on an entry of the pool that is of variant tag
Lands(const_pool, idx, tag) ==
    /\ idx >= 1
    /\ idx <= Len(const_pool)
    /\ const_pool[idx].tag = tag

\* Every index insert_class follows is one of the pool
LinkIndicesInRange(class_file) ==
    /\ InRange(class_file.this_class, Len(class_file.const_pool) + 1)
    /\ Lands(class_file.const_pool, class_file.this_class, "Class") =>
          InRange(class_file.const_pool[class_file.this_class].name_idx,
                  Len(class_file.const_pool) + 1)
    /\ \A i \in 1..Len(class_file.methods) :
          /\ InRange(class_file.methods[i].name_idx, Len(class_file.const_pool) + 1)
          /\ InRange(class_file.methods[i].descriptor_idx,
                     Len(class_file.const_pool) + 1)

\* this_class lands on a Class, that Class on a Utf8, and every method's
\* name and descriptor on a Utf8
LinksWell(class_file) ==
    /\ Lands(class_file.const_pool, class_file.this_class, "Class")
    /\ Lands(class_file.const_pool,
             class_file.const_pool[class_file.this_class].name_idx, "Utf8")
    /\ \A i \in 1..Len(class_file.methods) :
          /\ Lands(class_file.const_pool, class_file.methods[i].name_idx, "Utf8")
          /\ Lands(class_file.const_pool, class_file.methods[i].descriptor_idx,
                   "Utf8")

\* C3 Type-checked accessors: at an in-range index get_utf8 is Ok (with the
\* entry's text) exactly when the entry is a Utf8 and get_class is Ok (with
\* the entry's name index) exactly when it is a Class, and is an error on
\* any other variant; insert_class is Ok exactly when this_class lands on a
\* Class, that Class on a Utf8 and every method's name and descriptor on a
\* Utf8, and is an error when an index of the pool lands on a wrong variant.
C3_TypeCheckedAccessors ==
    /\ (call.op = "get_utf8" /\ InRange(call.idx, call.count)) =>
          IF call.consts[call.idx].tag = "Utf8"
          THEN ret.st = "Ok" /\ ret.val = call.consts[call.idx].bytes
          ELSE ret.st = "Err"
    /\ (call.op = "get_class" /\ InRange(call.idx, call.count)) =>
          IF call.consts[call.idx].tag = "Class"
          THEN ret.st = "Ok" /\ ret.val = call.consts[call.idx].name_idx
          ELSE ret.st = "Err"
    /\ call.op = "insert_class" =>
          /\ ret.st = "Ok" <=> LinksWell(call.class_file)
          /\ (LinkIndicesInRange(call.class_file) /\ ~LinksWell(call.class_file))
                => ret.st = "Err"

\* get_utf8 was asked for a Class entry and refused it
C3_WrongVariant ==
    /\ call.op = "get_utf8"
    /\ InRange(call.idx, call.count)
    /\ call.consts[call.idx].tag = "Class"
    /\ ret.st = "Err"

\* The tags whose payload is consumed and discarded
OpaqueTags == {3, 4, 5, 6, 8, 9, 10, 11, 12, 15, 16, 18}

\* C4 Constant tag dispatch: read_const of either reader, on a stream that
\* holds a tag and its whole payload, yields for tag 1 the Utf8 entry of the
\* length-prefixed text (an error when the text is not UTF-8), for tag 7 the
\* Class entry of the big-endian name index, for every tag of OpaqueTags one
\* Unimplemented entry with the payload consumed, and for any other tag the
\* unimplemented-tag error.
C4_TagDispatch ==
    (call.op = "read_const" /\ call.s = call.full) =>
        LET tag == call.s[1]
            text == SubSeq(call.s, 4, Len(call.s))
        IN  IF tag = 1
            THEN IF ValidUtf8From(text, 1)
                 THEN ret = Ok(Utf8(text), Len(call.s))
                 ELSE ret.st = "Err"
            ELSE IF tag = 7
            THEN ret = Ok(Class(call.s[2] * 256 + call.s[3]), 3)
            ELSE IF tag \in OpaqueTags
            THEN ret = Ok(Unimplemented, Len(call.s))
            ELSE ret.st = "Err" /\ ret.err = "Unimplemented tag"

\* class_file.rs read_const on an Integer constant (tag 3)
C4_IntegerRefused ==
    /\ call.op = "read_const"
    /\ call.rd = "class_file"
    /\ call.s = <<3, 0, 2, 104, 105>>
    /\ ret.st = "Err"

\* C5 Length fidelity: when Code decoding is Ok, the stream holds the
\* code_length field, the decoded bytecode is exactly the code_length bytes
\* that follow it, and the stream holds the exception_table_length field
\* and the 8 x exception_table_length bytes of the table after the bytecode.
\* (lib.rs decodes the attribute from its u32 length on: 4 bytes more.)
C5_LengthFidelity ==
    (call.op = "read_code" /\ ret.st = "Ok") =>
        LET at == IF call.rd = "lib" THEN 8 ELSE 4
            has(n) == Len(call.s) >= n
            code_length == from_be_bytes(SubSeq(call.s, at + 1, at + 4))
            table == at + 4 + code_length
            table_length == from_be_bytes(SubSeq(call.s, table + 1, table + 2))
        IN  /\ has(at + 4)
            /\ Len(ret.val.code) = code_length
            /\ has(table)
            /\ ret.val.code = SubSeq(call.s, at + 5, table)
            /\ has(table + 2)
            /\ has(table + 2 + 8 * table_length)
            /\ ret.pos >= table + 2 + 8 * table_length

\* The same of Code::read_from (class_file.rs) alone
C5_class_file_reader ==
    (call.op = "read_code" /\ call.rd = "class_file") => C5_LengthFidelity

\* lib.rs decodes a Code attribute that stops after its code_length field
\* of 2: the bytecode is two zeros
C5_ZeroFilledCode ==
    /\ call.op = "read_code"
    /\ call.rd = "lib"
    /\ call.c.code = <<RETURN, RETURN>>
    /\ Len(call.s) = 12
    /\ ret.st = "Ok"
    /\ ret.val.code = <<0, 0>>

\* '/' is 47 and '.' is 46
Dotted(name) == [i \in 1..Len(name) |-> IF name[i] = 47 THEN 46 ELSE name[i]]

\* The classes linked so far, and the last one linked under a name
LinkedNames == {linked[i].this_class : i \in 1..Len(linked)}
LastLinked(name) ==
    linked[CHOOSE i \in 1..Len(linked) :
               /\ linked[i].this_class = name
               /\ \A j \in i + 1..Len(linked) : linked[j].this_class # name]

\* C6 Registry key normalization: every linked class is registered under
\* the '.'-separated form of its name, so the lookup of the main class by a
\* '.'-separated name that a linked class has finds that class, and the
\* lookup of a name no linked class has is the unknown-class error naming
\* the requested name.
C6_KeyNormalization ==
    /\ \A name \in LinkedNames :
          /\ Dotted(name) \in DOMAIN classes
          /\ classes[Dotted(name)].this_class \in {name, Dotted(name)}
    /\ (call.op = "lookup" /\ arg # <<>>) =>
          IF \E name \in LinkedNames : Dotted(name) = arg[1]
          THEN ret.err # "unknown class"
          ELSE ret = Err("unknown class", arg[1])

\* The class a/B is linked and the lookup of a.B is the unknown-class error
C6_DottedNameUnknown ==
    /\ call.op = "lookup"
    /\ NameSlash \in LinkedNames
    /\ arg = <<NameDot>>
    /\ ret = Err("unknown class", NameDot)

\* The class requested has, as last linked, a main method whose bytecode is
\* the single byte RETURN
MainIsEmptyBody ==
    /\ arg # <<>>
    /\ \E name \in LinkedNames :
          /\ Dotted(name) = arg[1]
          /\ find_main(LastLinked(name).methods).st = "Ok"
          /\ find_main(LastLinked(name).methods).val.code.code = <<RETURN>>

\* C7 RETURN terminates the thread: a thread just created from a method has
\* one frame, at program counter 0, with the method's bytecode; once RETURN
\* has executed, the stack is the stack before it without its top frame;
\* and when every class file has loaded and the requested main class has a
\* main method whose bytecode is the single byte RETURN, run ends with an
\* empty call stack and reports success.
C7_ReturnTerminates ==
    /\ call.op = "thread" =>
          frames = <<[program_counter |-> 0, code |-> call.method.code.code]>>
    /\ call.op = "RETURN" =>
          /\ Len(frames) = Len(call.before) - 1
          /\ \A i \in 1..Len(frames) : frames[i] = call.before[i]
    /\ (pc = "done" /\ call.op # "load" /\ MainIsEmptyBody) =>
          result.st = "Ok" /\ frames = <<>>

\* A thread ran the single byte RETURN and run reported success
C7_EmptyMainReturns ==
    /\ pc = "done"
    /\ call.op = "RETURN"
    /\ call.before = <<[program_counter |-> 0, code |-> <<RETURN>>]>>
    /\ frames = <<>>
    /\ result.st = "Ok"

C8_NonEmptyBytecodeEnds ==
    (pc = "thread" /\ ret.val.code.code # <<>>) ~> (pc = "done")

FirstCode(const_pool, attributes) ==
    LET named == {i \in 1..Len(attributes) :
                     const_pool[attributes[i].name_idx] = Utf8(CodeText)}
    IN  IF named = {} THEN EmptyCode
        ELSE Code_read_from(
                 attributes[CHOOSE i \in named : \A j \in named : i <= j].info,
                 0).val

\* C9 Code attribute selection: a class file whose methods carry Code
\* attributes and attributes of other names links; the code of each linked
\* method is the decoding of the first attribute of the method whose name
\* is "Code", the empty Code when it has none; the linked methods are the
\* class file's, in its order.
C9_FirstCodeAttribute ==
    call.op = "load" =>
        /\ ret.st = "Ok"
        /\ Len(ret.val.methods) = Len(call.d.methods)
        /\ \A i \in 1..Len(call.d.methods) :
              /\ ret.val.methods[i].name
                    = call.d.const_pool[call.d.methods[i].name_idx].bytes
              /\ ret.val.methods[i].code
                    = FirstCode(call.d.const_pool, call.d.methods[i].attributes)

\* A method with two Code attributes is linked with the code of the second
C9_LastCodeKept ==
    /\ call.op = "load"
    /\ ret.st = "Ok"
    /\ Len(call.d.methods) = 1
    /\ Len(call.d.methods[1].attributes) = 2
    /\ call.d.methods[1].attributes[1].name_idx = 5
    /\ call.d.methods[1].attributes[2].name_idx = 5
    /\ call.d.methods[1].attributes[1] # call.d.methods[1].attributes[2]
    /\ ret.val.methods[1].code
          = Code_read_from(call.d.methods[1].attributes[2].info, 0).val

\* C10 Registry last-writer-wins: after any sequence of loads the registry
\* has one entry for each name a class was linked under and no other, the
\* entry of a name is the class most recently linked under it, and a load
\* that fails leaves the registry as it was before it.
C10_LastWriterWins ==
    /\ DOMAIN classes = LinkedNames
    /\ \A name \in DOMAIN classes : classes[name] = LastLinked(name)
    /\ (call.op = "load" /\ ret.st # "Ok") => classes = call.before

\* Two different classes of one name were linked; the registry holds the
\* second
C10_Replaced ==
    /\ Len(linked) = 2
    /\ linked[1].this_class = linked[2].this_class
    /\ linked[1] # linked[2]
    /\ classes[linked[2].this_class] = linked[2]

====
